---- MODULE Spec2Model ----
(***************************************************************************)
(* The "simple" database plugin of MPD                                     *)
(* (src/db/plugins/simple/SimpleDatabasePlugin.cxx): a host SimpleDatabase *)
(* whose Directory tree can mount further SimpleDatabase instances, the    *)
(* global database mutex taken through ScopeDatabaseLock, and the          *)
(* GetSong/ReturnSong borrow protocol.  Every method is cut into steps at  *)
(* the points where the global mutex is taken or released and where        *)
(* control crosses into another instance.  Builds with assertions enabled  *)
(* (NDEBUG undefined) are modelled: a failed assert() aborts the process.  *)
(***************************************************************************)
EXTENDS Integers, Sequences, FiniteSets, TLC

\* Number of further database instances that can be constructed and mounted.
MaxDb == 2
\* Number of public method calls a single caller issues.
MaxOps == 3
\* Number of public method calls the callers on two threads issue together.
MaxConcOps == 2

\* The database instance configured by the ConfigBlock constructor.
Host == 0
DbIds == 1..MaxDb
Insts == {Host} \cup DbIds
\* A null Database pointer.
NullDb == -1

Threads == {"t1", "t2"}
NoThread == "none"

\* Path segments; a URI is a non-empty sequence of segments ("a/s" is <<"a","s">>).
\* The URIs a single caller passes: the directory "a", its song "a/s", a mount
\* point "m" and one below "a", and two paths below "m".
Uris == {<<"a">>, <<"m">>, <<"a", "s">>, <<"a", "m">>, <<"m", "s">>, <<"m", "a">>}
\* The URIs the callers on two threads pass.
ConcUris == {<<"m">>, <<"a", "s">>, <<"m", "s">>}

\* const char * results: the empty sequence stands for nullptr.
NullUri == << >>
\* strchr(uri, '/') != nullptr
HasSlash(u) == Len(u) > 1

\* Pointers to LightSong objects: nullptr, &light_song.Get() of an instance,
\* or a heap-allocated PrefixedLightSong.
NullSong == <<"null", 0>>
SlotOf(i) == <<"slot", i>>
HeapSong(id) == <<"heap", id>>

\* std::chrono::system_clock::time_point::min()
MinTime == -1

\* A Directory tree: the paths of its directory nodes, the paths of its
\* songs, and its mount points as pairs <<path of the node, mounted_database>>.
NoRoot == [dirs |-> {}, songs |-> {}, mounted |-> {}]
\* Directory::NewRoot()
NewRoot == [dirs |-> {<< >>}, songs |-> {}, mounted |-> {}]
\* The tree db_load_internal() builds from a database file of a mounted instance.
LoadedTree == [dirs |-> {<< >>}, songs |-> {<<"s">>}, mounted |-> {}]
\* The tree db_load_internal() builds from the host's database file.
HostTree == [dirs |-> {<< >>, <<"a">>}, songs |-> {<<"a", "s">>}, mounted |-> {}]

IsPrefix(p, q) == Len(p) <= Len(q) /\ SubSeq(q, 1, Len(p)) = p

\* Directory::IsMount()
IsMount(tree, d) == \E m \in tree.mounted : m[1] = d

\* directory->mounted_database of the mount point at d.
DbAt(tree, d) == (CHOOSE m \in tree.mounted : m[1] = d)[2]

\* Directory::LookupDirectory(): consume segments as child directories, stop at
\* a mount point or at the first segment that names no child.
RECURSIVE LookupFrom(_, _, _)
LookupFrom(tree, d, rest) ==
    IF rest = << >> THEN [directory |-> d, uri |-> NullUri]
    ELSE IF IsMount(tree, d) THEN [directory |-> d, uri |-> rest]
    ELSE IF Append(d, Head(rest)) \in tree.dirs
         THEN LookupFrom(tree, Append(d, Head(rest)), Tail(rest))
         ELSE [directory |-> d, uri |-> rest]

LookupDirectory(tree, u) == LookupFrom(tree, << >>, u)

\* Directory::FindSong(): the set holding the song of that name, or the empty
\* set for nullptr.
FindSong(tree, d, name) ==
    IF Append(d, name) \in tree.songs THEN {Append(d, name)} ELSE {}

\* Directory::CreateChild()
CreateChild(tree, d, name) == [tree EXCEPT !.dirs = @ \cup {Append(d, name)}]

\* Directory::Delete(): unlink the node from its parent and destroy it with
\* everything below it.
DeleteDir(tree, d) ==
    [dirs |-> {x \in tree.dirs : ~IsPrefix(d, x)},
     songs |-> {x \in tree.songs : x = d \/ ~IsPrefix(d, x)},
     mounted |-> {m \in tree.mounted : ~IsPrefix(d, m[1])}]

\* Directory::IsEmpty() for a node that is not a mount point.
IsEmptyDir(tree, d) ==
    /\ ~\E x \in tree.dirs : x # d /\ IsPrefix(d, x)
    /\ ~\E x \in tree.songs : x # d /\ IsPrefix(d, x)

\* Directory::PruneEmpty(): drop, bottom-up, every directory below the root
\* that holds nothing and is no mount point.
Prunable(tree) ==
    {d \in tree.dirs :
        /\ d # << >>
        /\ ~(\E x \in tree.songs : x # d /\ IsPrefix(d, x))
        /\ ~(\E m \in tree.mounted : IsPrefix(d, m[1]))}

PruneEmpty(tree) == [tree EXCEPT !.dirs = @ \ Prunable(tree)]

VARIABLES
    db_mutex,             \* holder of the global database mutex, or NoThread
    badUnlock,            \* the mutex was unlocked by a thread that did not hold it
    aborted,              \* the assertion that aborted the process, or ""
    status,               \* per instance: "unborn", "reserved", "constructed", "open", "closed", "deleted"
    root,                 \* per instance: the Directory tree (NoRoot when there is none)
    borrowed_song_count,  \* per instance
    light_song,           \* per instance: Manual<LightSong>, {} when not constructed
    prefixed_light_song,  \* per instance: pointer to the PrefixedLightSong, or NullSong
    heap,                 \* the live PrefixedLightSong objects: id -> [uri, inst]
    nOpen, nClose, nDelete, \* per instance: calls of Open(), Close(), delete
    cache_path,           \* whether the host has a "cache_directory"
    file,                 \* per instance: the database file, its content and time
    mtime,                \* per instance: the modification time kept in memory
    th,                   \* per thread: the caller's position and locals
    budget,               \* public method calls the callers may still issue
    storage_uri,          \* storage identifiers handed to the cache mount
    name                  \* the cache file name derived from each of them

vars == <<db_mutex, badUnlock, aborted, status, root, borrowed_song_count,
          light_song, prefixed_light_song, heap, nOpen, nClose, nDelete,
          cache_path, file, mtime, th, budget, storage_uri, name>>

instVars == <<status, root, borrowed_song_count, light_song,
              prefixed_light_song, heap, nOpen, nClose, nDelete, file, mtime>>

NoAcc == [site |-> "none", held |-> TRUE]
NoResult == [kind |-> "none", err |-> "", ptr |-> NullSong, b |-> FALSE]
Returned(p) == [kind |-> "return", err |-> "", ptr |-> p, b |-> FALSE]
ReturnedBool(v) == [kind |-> "return", err |-> "", ptr |-> NullSong, b |-> v]
Thrown(e) == [kind |-> "throw", err |-> e, ptr |-> NullSong, b |-> FALSE]
\* What a caller remembers of its last call when that was a Mount() that
\* returned normally.
NoCall == [uri |-> NullUri, db |-> NullDb, before |-> NoRoot]

\* A DatabaseSelection with the visitors passed to Visit.
NoSelection == [recursive |-> FALSE, visit_directory |-> FALSE,
                visit_song |-> FALSE, match |-> FALSE]

IdleThread ==
    [pc |-> "idle", self |-> Host, op |-> "none", uri |-> NullUri,
     r |-> [directory |-> << >>, uri |-> NullUri], protect |-> FALSE,
     song |-> {}, db |-> NullDb, arg |-> NullSong,
     sel |-> NoSelection, visited |-> {}, buf |-> NoRoot,
     ret |-> NoResult, result |-> NoResult, stack |-> << >>,
     acc |-> NoAcc, xcall |-> NoAcc, before |-> NoRoot,
     last |-> NoCall, pair |-> NoCall]

\* The host after Open(), and after Open() and Mount("m", db) of instance 1.
MountedTree == [HostTree EXCEPT !.dirs = @ \cup {<<"m">>}, !.mounted = {<<(<<"m">>), 1>>}]

InitObjects ==
    /\ db_mutex = NoThread
    /\ badUnlock = FALSE
    /\ aborted = ""
    /\ \E premounted \in BOOLEAN :
         /\ status = [i \in Insts |-> IF i = Host \/ (premounted /\ i = 1)
                                      THEN "open" ELSE "unborn"]
         /\ root = [i \in Insts |->
                      IF i = Host THEN (IF premounted THEN MountedTree ELSE HostTree)
                      ELSE IF premounted /\ i = 1 THEN LoadedTree ELSE NoRoot]
         /\ nOpen = [i \in Insts |-> IF i = Host \/ (premounted /\ i = 1) THEN 1 ELSE 0]
         /\ mtime = [i \in Insts |-> IF i = Host \/ (premounted /\ i = 1)
                                     THEN 0 ELSE MinTime]
    /\ borrowed_song_count = [i \in Insts |-> 0]
    /\ light_song = [i \in Insts |-> {}]
    /\ prefixed_light_song = [i \in Insts |-> NullSong]
    /\ heap = << >>
    /\ nClose = [i \in Insts |-> 0]
    /\ nDelete = [i \in Insts |-> 0]
    /\ cache_path \in BOOLEAN
    /\ file = [i \in Insts |->
                 [tree |-> IF i = Host THEN HostTree ELSE LoadedTree, time |-> 0]]
    /\ th = [t \in Threads |-> IdleThread]

\* No cache file name has been derived.
InitCommon == InitObjects /\ storage_uri = << >> /\ name = << >>

(***************************************************************************)
(* The global database mutex and ScopeDatabaseLock                         *)
(***************************************************************************)

\* db_unlock() by thread t.
DbUnlock(t) ==
    /\ db_mutex' = IF db_mutex = t THEN NoThread ELSE db_mutex
    /\ badUnlock' = (badUnlock \/ db_mutex # t)

\* ~ScopeDatabaseLock(): unlock unless unlock() was called before.
LeaveScope(t, locked) ==
    IF locked THEN DbUnlock(t) ELSE UNCHANGED <<db_mutex, badUnlock>>

\* Thread t is about to run the step at p.
At(t, p) == aborted = "" /\ th[t].pc = p

\* The statement after each ScopeDatabaseLock constructor.
AfterLock ==
    [gs_lock |-> "gs_lookup", v_lock |-> "v_lookup", sv_lock |-> "sv_prune",
     mt_lock |-> "mt_body", um_lock |-> "um_steal"]

\* ScopeDatabaseLock protect: db_lock(), which blocks while another thread
\* holds the mutex (and forever if the caller itself holds it).
Lock(t) ==
    /\ aborted = ""
    /\ th[t].pc \in DOMAIN AfterLock
    /\ db_mutex = NoThread
    /\ db_mutex' = t
    /\ th' = [th EXCEPT ![t] = [@ EXCEPT !.pc = AfterLock[th[t].pc], !.protect = TRUE]]
    /\ UNCHANGED <<badUnlock, aborted, instVars, cache_path, budget, storage_uri, name>>

(***************************************************************************)
(* Calls and returns                                                       *)
(***************************************************************************)

\* The caller starts a public method of the host instance.
Start(rec, op, u, a) ==
    [IdleThread EXCEPT !.pc = op, !.op = op, !.uri = u, !.arg = a,
                       !.before = root[Host],
                       !.pair = IF op = "Unmount" /\ rec.last.uri = u
                                THEN rec.last ELSE NoCall]

\* A method calls a method of another instance: the caller's frame is kept.
Call(rec, cont, callee, op, u) ==
    [rec EXCEPT !.stack = <<[pc |-> cont, self |-> rec.self, uri |-> rec.uri,
                             r |-> rec.r, protect |-> rec.protect,
                             db |-> rec.db]>> \o @,
                !.pc = op, !.self = callee, !.uri = u, !.protect = FALSE,
                !.song = {}, !.ret = NoResult]

\* A method returns or throws: back to the calling frame, or to the caller
\* of the public method.
Ret(rec, val) ==
    IF rec.stack = << >>
    THEN [IdleThread EXCEPT !.op = rec.op, !.result = val, !.acc = rec.acc,
                            !.xcall = rec.xcall, !.visited = rec.visited,
                            !.pair = rec.pair, !.arg = rec.arg,
                            !.last = IF rec.op \in {"Mount", "MountCache"}
                                        /\ val.kind = "return"
                                     THEN [uri |-> rec.uri, db |-> rec.db,
                                           before |-> rec.before]
                                     ELSE NoCall]
    ELSE LET f == Head(rec.stack) IN
         [rec EXCEPT !.pc = f.pc, !.self = f.self, !.uri = f.uri, !.r = f.r,
                     !.protect = f.protect, !.db = f.db, !.song = {},
                     !.ret = val, !.stack = Tail(@)]

Access(t, site) == [site |-> site, held |-> db_mutex = t]

\* A failed assert() aborts the process.
Abort(msg) ==
    /\ aborted' = msg
    /\ UNCHANGED <<db_mutex, badUnlock, instVars, cache_path, th, budget,
                   storage_uri, name>>

(***************************************************************************)
(* SimpleDatabase::GetSong                                                 *)
(***************************************************************************)

\* GetSong that asserts prefixed_light_song == nullptr only.
GetSongMayBorrow_IgnoresCount(i) == prefixed_light_song[i] = NullSong

\* GetSong that asserts borrowed_song_count == 0 only.
GetSongMayBorrow_IgnoresPrefixed(i) == borrowed_song_count[i] = 0

\* The assertions at the entry of GetSong other than root != nullptr.
GetSongMayBorrow(i) ==
    /\ prefixed_light_song[i] = NullSong
    /\ borrowed_song_count[i] = 0

GetSongEntry(t) ==
    /\ At(t, "GetSong")
    /\ LET i == th[t].self IN
       IF status[i] # "open"
       THEN Abort("GetSong: root != nullptr")
       ELSE IF ~GetSongMayBorrow(i)
       THEN Abort(IF prefixed_light_song[i] # NullSong
                  THEN "GetSong: prefixed_light_song == nullptr"
                  ELSE "GetSong: borrowed_song_count == 0")
       ELSE /\ th' = [th EXCEPT ![t] = [@ EXCEPT !.pc = "gs_lock"]]
            /\ UNCHANGED <<db_mutex, badUnlock, aborted, instVars, cache_path, budget, storage_uri, name>>

\* GetSong that delegates to the mounted instance without protect.unlock().
GetSongIntoMount_KeepsLock(t, r) ==
    /\ UNCHANGED <<db_mutex, badUnlock>>
    /\ th' = [th EXCEPT ![t] = [@ EXCEPT !.r = r, !.acc = Access(t, "GetSong:208"),
                                         !.pc = "gs_call"]]

\* The lookup landed on a mount point: protect.unlock(), then delegate.
GetSongIntoMount(t, r) ==
    /\ DbUnlock(t)
    /\ th' = [th EXCEPT ![t] = [@ EXCEPT !.r = r, !.acc = Access(t, "GetSong:208"),
                                         !.protect = FALSE, !.pc = "gs_call"]]

\* GetSong that releases the mutex behind the guard's back, so that the
\* guard's destructor releases it again.
GetSongFound_GuardArmed(rec, r, s) ==
    [rec EXCEPT !.r = r, !.song = s, !.pc = "gs_export"]

\* The thread's locals once the song was looked up and protect.unlock() ran.
GetSongFound(rec, r, s) ==
    [rec EXCEPT !.r = r, !.song = s, !.protect = FALSE, !.pc = "gs_export"]

\* GetSong that does not reject a remainder with a slash in it.
GetSongMiss_SlashIgnored(r) == r.uri = NullUri

\* The lookup result is a directory, or a URI "below" a song: NOT_FOUND.
GetSongMiss(r) == r.uri = NullUri \/ HasSlash(r.uri)

GetSongLookup(t) ==
    /\ At(t, "gs_lookup")
    /\ LET i == th[t].self
           r == LookupDirectory(root[i], th[t].uri)
       IN IF IsMount(root[i], r.directory)
          THEN GetSongIntoMount(t, r)
          ELSE IF GetSongMiss(r)
          THEN /\ LeaveScope(t, th[t].protect)
               /\ th' = [th EXCEPT ![t] =
                             Ret([@ EXCEPT !.acc = Access(t, "GetSong:208")],
                                 Thrown("NOT_FOUND"))]
          ELSE /\ DbUnlock(t)
               /\ th' = [th EXCEPT ![t] =
                             GetSongFound([@ EXCEPT !.acc = Access(t, "GetSong:234")],
                                          r, FindSong(root[i], r.directory, r.uri[1]))]
    /\ UNCHANGED <<aborted, instVars, cache_path, budget, storage_uri, name>>

\* r.directory->mounted_database->GetSong(r.uri).  On the mount point
\* itself r.uri is nullptr: the mounted instance's lookup of a null string is
\* undefined, it crashes or finds no song.
GetSongCall(t) ==
    /\ At(t, "gs_call")
    /\ LET i == th[t].self
           d == th[t].r.directory
       IN IF ~IsMount(root[i], d)
          THEN Abort("GetSong:215 reads a deleted Directory")
          ELSE \/ /\ th[t].r.uri = NullUri
                  /\ Abort("GetSong:215 passes uri == nullptr")
               \/ /\ th' = [th EXCEPT ![t] =
                            Call([@ EXCEPT !.acc = Access(t, "GetSong:215"),
                                           !.xcall = Access(t, "GetSong:215"),
                                           !.db = DbAt(root[i], d)],
                                 "gs_wrap", DbAt(root[i], d), "GetSong", th[t].r.uri)]
                  /\ UNCHANGED <<db_mutex, badUnlock, aborted, instVars, cache_path, budget, storage_uri, name>>

\* The smallest address not in use on the heap.
NewId == CHOOSE n \in 1..(Cardinality(DOMAIN heap) + 1) :
            /\ n \notin DOMAIN heap
            /\ \A k \in 1..(n - 1) : k \in DOMAIN heap

\* The song a LightSong pointer returned by instance m refers to.
SongAt(p) ==
    IF p[1] = "slot" THEN light_song[p[2]]
    ELSE IF p[1] = "heap" /\ p[2] \in DOMAIN heap THEN {heap[p[2]].uri}
    ELSE {}

\* new PrefixedLightSong(*song, r.directory->GetPath())
GetSongWrap(t) ==
    /\ At(t, "gs_wrap")
    /\ LET i == th[t].self
           d == th[t].r.directory
           v == th[t].ret
       IN IF v.kind = "throw"
          THEN /\ LeaveScope(t, th[t].protect)
               /\ th' = [th EXCEPT ![t] = Ret(@, v)]
               /\ UNCHANGED <<aborted, instVars>>
          ELSE IF v.ptr = NullSong
          THEN /\ LeaveScope(t, th[t].protect)
               /\ th' = [th EXCEPT ![t] = Ret(@, Returned(NullSong))]
               /\ UNCHANGED <<aborted, instVars>>
          ELSE IF d \notin root[i].dirs \/ SongAt(v.ptr) = {}
          THEN Abort("GetSong:220 reads a deleted Directory")
          ELSE /\ LeaveScope(t, th[t].protect)
               /\ heap' = heap @@ (NewId :>
                              [uri |-> d \o (CHOOSE s \in SongAt(v.ptr) : TRUE),
                               inst |-> i])
               /\ prefixed_light_song' = [prefixed_light_song EXCEPT ![i] = HeapSong(NewId)]
               /\ th' = [th EXCEPT ![t] =
                            Ret([@ EXCEPT !.acc = Access(t, "GetSong:220")],
                                Returned(HeapSong(NewId)))]
               /\ UNCHANGED <<aborted, status, root, borrowed_song_count, light_song,
                              nOpen, nClose, nDelete, file, mtime>>
    /\ UNCHANGED <<cache_path, budget, storage_uri, name>>

\* light_song.Construct(song->Export()); ++borrowed_song_count
GetSongExport(t) ==
    /\ At(t, "gs_export")
    /\ LET i == th[t].self IN
       IF th[t].song = {}
       THEN /\ LeaveScope(t, th[t].protect)
            /\ th' = [th EXCEPT ![t] = Ret(@, Thrown("NOT_FOUND"))]
            /\ UNCHANGED <<aborted, instVars>>
       ELSE /\ LeaveScope(t, th[t].protect)
            /\ light_song' = [light_song EXCEPT ![i] = th[t].song]
            /\ borrowed_song_count' = [borrowed_song_count EXCEPT ![i] = @ + 1]
            /\ th' = [th EXCEPT ![t] =
                         Ret([@ EXCEPT !.acc = Access(t, "GetSong:240")],
                             Returned(SlotOf(i)))]
            /\ UNCHANGED <<aborted, status, root, prefixed_light_song, heap,
                           nOpen, nClose, nDelete, file, mtime>>
    /\ UNCHANGED <<cache_path, budget, storage_uri, name>>

(***************************************************************************)
(* SimpleDatabase::ReturnSong                                              *)
(***************************************************************************)

ReturnSong(t) ==
    /\ At(t, "ReturnSong")
    /\ LET i == th[t].self
           s == th[t].arg
       IN IF s = NullSong
          THEN Abort("ReturnSong: song != nullptr")
          ELSE IF ~(s = SlotOf(i) \/ s = prefixed_light_song[i])
          THEN Abort("ReturnSong: song == &light_song.Get() || song == prefixed_light_song")
          ELSE IF prefixed_light_song[i] # NullSong
          THEN /\ heap' = [x \in DOMAIN heap \ {prefixed_light_song[i][2]} |-> heap[x]]
               /\ prefixed_light_song' = [prefixed_light_song EXCEPT ![i] = NullSong]
               /\ th' = [th EXCEPT ![t] = Ret(@, Returned(NullSong))]
               /\ UNCHANGED <<db_mutex, badUnlock, aborted, status, root,
                              borrowed_song_count, light_song, nOpen, nClose,
                              nDelete, file, mtime, cache_path, budget, storage_uri, name>>
          ELSE IF borrowed_song_count[i] = 0
          THEN Abort("ReturnSong: borrowed_song_count > 0")
          ELSE /\ borrowed_song_count' = [borrowed_song_count EXCEPT ![i] = @ - 1]
               /\ light_song' = [light_song EXCEPT ![i] = {}]
               /\ th' = [th EXCEPT ![t] = Ret(@, Returned(NullSong))]
               /\ UNCHANGED <<db_mutex, badUnlock, aborted, status, root,
                              prefixed_light_song, heap, nOpen, nClose,
                              nDelete, file, mtime, cache_path, budget, storage_uri, name>>

(***************************************************************************)
(* SimpleDatabase::Open and SimpleDatabase::Close                          *)
(***************************************************************************)

\* What Load() and Check() do in Open(): Load() succeeds and reads the file's
\* modification time, or succeeds while GetFileInfo() fails, or Load() throws
\* and Check() passes, or Load() throws and Check() throws.
OpenOutcomes == {"loaded", "unstamped", "fallback", "fail"}

\* Open that keeps the directories parsed before Load() threw.
OpenRoot_KeepsPartial(i, o) ==
    IF o \in {"loaded", "unstamped"} THEN file[i].tree
    ELSE IF o = "fallback" THEN [file[i].tree EXCEPT !.songs = {}]
    ELSE NoRoot

\* The root Open() leaves behind.
OpenRoot(i, o) ==
    IF o \in {"loaded", "unstamped"} THEN file[i].tree
    ELSE IF o = "fallback" THEN NewRoot
    ELSE NoRoot

\* The mtime Open() leaves behind.
OpenTime(i, o) == IF o = "loaded" THEN file[i].time ELSE MinTime

\* The assertion Close() fails on, or "".
CloseFails(i) ==
    IF status[i] # "open" THEN "Close: root != nullptr"
    ELSE IF prefixed_light_song[i] # NullSong THEN "Close: prefixed_light_song == nullptr"
    ELSE IF borrowed_song_count[i] # 0 THEN "Close: borrowed_song_count == 0"
    ELSE ""

\* The instances a Directory tree owns through its mount points.
Owned(tree) == {m[2] : m \in tree.mounted}

(***************************************************************************)
(* SimpleDatabase::Mount(const char *uri, Database *db)                    *)
(***************************************************************************)

MountEntry(t) ==
    /\ At(t, "Mount")
    /\ IF th[t].uri = NullUri \/ th[t].db = NullDb
       THEN Abort("Mount: *uri != 0")
       ELSE /\ th' = [th EXCEPT ![t] = [@ EXCEPT !.pc = "mt_lock"]]
            /\ UNCHANGED <<db_mutex, badUnlock, aborted, instVars, cache_path, budget, storage_uri, name>>

\* Mount that does not reject a remainder with a slash in it.
MountError_SlashAllowed(r) == IF r.uri = NullUri THEN "CONFLICT" ELSE ""

\* The error Mount() throws for a lookup result, or "".
MountError(r) ==
    IF r.uri = NullUri THEN "CONFLICT"
    ELSE IF HasSlash(r.uri) THEN "NOT_FOUND"
    ELSE ""

\* Directory *mnt = r.directory->CreateChild(r.uri); mnt->mounted_database = db
MountAt(tree, r, d) ==
    [CreateChild(tree, r.directory, r.uri[1]) EXCEPT
        !.mounted = @ \cup {<<Append(r.directory, r.uri[1]), d>>}]

MountBody(t) ==
    /\ At(t, "mt_body")
    /\ LET i == th[t].self
           r == LookupDirectory(root[i], th[t].uri)
       IN /\ LeaveScope(t, th[t].protect)
          /\ IF MountError(r) # ""
             THEN /\ th' = [th EXCEPT ![t] =
                               Ret([@ EXCEPT !.acc = Access(t, "Mount:391")],
                                   Thrown(MountError(r)))]
                  /\ UNCHANGED root
             ELSE /\ root' = [root EXCEPT ![i] = MountAt(@, r, th[t].db)]
                  /\ th' = [th EXCEPT ![t] =
                               Ret([@ EXCEPT !.acc = Access(t, "Mount:400")],
                                   Returned(NullSong))]
    /\ UNCHANGED <<aborted, status, borrowed_song_count, light_song,
                   prefixed_light_song, heap, nOpen, nClose, nDelete, file,
                   mtime, cache_path, budget, storage_uri, name>>

(***************************************************************************)
(* SimpleDatabase::Mount(const char *local_uri, const char *storage_uri)   *)
(***************************************************************************)

\* The instance the next "new SimpleDatabase" yields.
FreshDb == CHOOSE d \in DbIds :
              status[d] = "unborn" /\ \A e \in DbIds : status[e] = "unborn" => d <= e

\* cache_path.IsNull() is checked, then the instance is constructed (from the
\* storage the caller's call set aside for it).
MountCacheEntry(t) ==
    /\ At(t, "MountCache")
    /\ IF ~cache_path
       THEN /\ th' = [th EXCEPT ![t] = Ret([@ EXCEPT !.db = NullDb], Thrown("NOT_FOUND"))]
            /\ status' = [status EXCEPT ![th[t].db] = "unborn"]
       ELSE /\ status' = [status EXCEPT ![th[t].db] = "constructed"]
            /\ th' = [th EXCEPT ![t] = [@ EXCEPT !.pc = "mc_open"]]
    /\ UNCHANGED <<db_mutex, badUnlock, aborted, root, borrowed_song_count,
                   light_song, prefixed_light_song, heap, nOpen, nClose, nDelete,
                   file, mtime, cache_path, budget, storage_uri, name>>

\* db->Open(), with delete db when it throws; then Mount(local_uri, db).
MountCacheOpen(t) ==
    /\ At(t, "mc_open")
    /\ \E o \in OpenOutcomes :
         LET d == th[t].db IN
         /\ nOpen' = [nOpen EXCEPT ![d] = @ + 1]
         /\ root' = [root EXCEPT ![d] = OpenRoot(d, o)]
         /\ mtime' = [mtime EXCEPT ![d] = OpenTime(d, o)]
         /\ borrowed_song_count' = [borrowed_song_count EXCEPT ![d] = 0]
         /\ IF o = "fail"
            THEN /\ status' = [status EXCEPT ![d] = "deleted"]
                 /\ nDelete' = [nDelete EXCEPT ![d] = @ + 1]
                 /\ th' = [th EXCEPT ![t] =
                              Ret([@ EXCEPT !.xcall = Access(t, "Mount:435")],
                                  Thrown("IO"))]
            ELSE /\ status' = [status EXCEPT ![d] = "open"]
                 /\ UNCHANGED nDelete
                 /\ th' = [th EXCEPT ![t] =
                              Call([@ EXCEPT !.xcall = Access(t, "Mount:435")],
                                   "mc_after", th[t].self, "Mount", th[t].uri)]
    /\ UNCHANGED <<db_mutex, badUnlock, aborted, light_song, prefixed_light_song,
                   heap, nClose, file, cache_path, budget, storage_uri, name>>

\* A catch block that deletes the instance without closing it.
CloseOnRollback_Skipped(d) == nClose

\* db->Close() in the catch block around Mount(local_uri, db).
CloseOnRollback(d) == [nClose EXCEPT ![d] = @ + 1]

\* Mount(local_uri, db) returned or threw; on a throw db->Close(), delete db.
MountCacheAfter(t) ==
    /\ At(t, "mc_after")
    /\ LET d == th[t].db
           v == th[t].ret
       IN IF v.kind # "throw"
          THEN /\ th' = [th EXCEPT ![t] = Ret(@, v)]
               /\ UNCHANGED <<aborted, instVars>>
          ELSE IF CloseFails(d) # ""
          THEN /\ aborted' = CloseFails(d)
               /\ UNCHANGED <<instVars, th>>
          ELSE /\ nClose' = CloseOnRollback(d)
               /\ nDelete' = [nDelete EXCEPT ![d] = @ + 1]
               /\ status' = [status EXCEPT ![d] = "deleted"]
               /\ root' = [root EXCEPT ![d] = NoRoot]
               /\ th' = [th EXCEPT ![t] =
                            Ret([@ EXCEPT !.xcall = Access(t, "Mount:446")], v)]
               /\ UNCHANGED <<aborted, borrowed_song_count, light_song,
                              prefixed_light_song, heap, nOpen, file, mtime>>
    /\ UNCHANGED <<db_mutex, badUnlock, cache_path, budget, storage_uri, name>>

(***************************************************************************)
(* SimpleDatabase::LockUmountSteal and SimpleDatabase::Unmount             *)
(***************************************************************************)

UnmountEntry(t) ==
    /\ At(t, "Unmount")
    /\ th' = [th EXCEPT ![t] = [@ EXCEPT !.pc = "um_lock"]]
    /\ UNCHANGED <<db_mutex, badUnlock, aborted, instVars, cache_path, budget, storage_uri, name>>

\* LockUmountSteal that does not look at the remainder of the lookup.
CanSteal_IgnoresRemainder(tree, r) == IsMount(tree, r.directory)

\* Whether LockUmountSteal() finds a mount to steal at the lookup result.
CanSteal(tree, r) == r.uri = NullUri /\ IsMount(tree, r.directory)

\* r.directory->mounted_database = nullptr; r.directory->Delete()
StealAt(tree, d) ==
    DeleteDir([tree EXCEPT !.mounted = {m \in @ : m[1] # d}], d)

LockUmountSteal(t) ==
    /\ At(t, "um_steal")
    /\ LET i == th[t].self
           r == LookupDirectory(root[i], th[t].uri)
       IN /\ LeaveScope(t, th[t].protect)
          /\ IF ~CanSteal(root[i], r)
             THEN /\ th' = [th EXCEPT ![t] =
                               [@ EXCEPT !.acc = Access(t, "LockUmountSteal:457"),
                                         !.db = NullDb, !.protect = FALSE,
                                         !.pc = "um_close"]]
                  /\ UNCHANGED <<root, status, nDelete>>
             ELSE LET gone == Owned(root[i]) \ (Owned(StealAt(root[i], r.directory))
                                                \cup {DbAt(root[i], r.directory)})
                  IN /\ root' = [x \in Insts |->
                                   IF x = i THEN StealAt(root[i], r.directory)
                                   ELSE IF x \in gone THEN NoRoot ELSE root[x]]
                     /\ status' = [x \in Insts |->
                                     IF x \in gone THEN "deleted" ELSE status[x]]
                     /\ nDelete' = [x \in Insts |->
                                      IF x \in gone THEN nDelete[x] + 1 ELSE nDelete[x]]
                     /\ th' = [th EXCEPT ![t] =
                                  [@ EXCEPT !.acc = Access(t, "LockUmountSteal:462"),
                                            !.db = DbAt(root[i], r.directory),
                                            !.protect = FALSE, !.pc = "um_close"]]
    /\ UNCHANGED <<aborted, borrowed_song_count, light_song, prefixed_light_song,
                   heap, nOpen, nClose, file, mtime, cache_path, budget, storage_uri, name>>

\* if (db == nullptr) return false; db->Close(); delete db; return true
UnmountClose(t) ==
    /\ At(t, "um_close")
    /\ LET d == th[t].db IN
       IF d = NullDb
       THEN /\ th' = [th EXCEPT ![t] = Ret(@, ReturnedBool(FALSE))]
            /\ UNCHANGED <<aborted, instVars>>
       ELSE IF CloseFails(d) # ""
       THEN /\ aborted' = CloseFails(d)
            /\ UNCHANGED <<instVars, th>>
       ELSE /\ nClose' = [nClose EXCEPT ![d] = @ + 1]
            /\ nDelete' = [nDelete EXCEPT ![d] = @ + 1]
            /\ status' = [status EXCEPT ![d] = "deleted"]
            /\ root' = [root EXCEPT ![d] = NoRoot]
            /\ th' = [th EXCEPT ![t] =
                         Ret([@ EXCEPT !.xcall = Access(t, "Unmount:475")],
                             ReturnedBool(TRUE))]
            /\ UNCHANGED <<aborted, borrowed_song_count, light_song,
                           prefixed_light_song, heap, nOpen, file, mtime>>
    /\ UNCHANGED <<db_mutex, badUnlock, cache_path, budget, storage_uri, name>>

(***************************************************************************)
(* SimpleDatabase::Visit                                                   *)
(***************************************************************************)

\* A node below a mount point: no lookup and no walk reaches it.
Hidden(tree, x) == \E m \in tree.mounted : m[1] # x /\ IsPrefix(m[1], x)

\* Directory::Walk() without the mount points: the directories and songs
\* below d that reach the visitors.
LocalWalk(tree, d, sel) ==
    {<<"directory", x>> : x \in {y \in tree.dirs :
          /\ sel.visit_directory
          /\ y # d /\ IsPrefix(d, y) /\ ~Hidden(tree, y)
          /\ (sel.recursive \/ Len(y) = Len(d) + 1)}}
    \cup
    {<<"song", x>> : x \in {y \in tree.songs :
          /\ sel.visit_song /\ sel.match
          /\ IsPrefix(d, y) /\ ~Hidden(tree, y)
          /\ (sel.recursive \/ Len(y) = Len(d) + 1)}}

\* WalkMount(): what the visitors get from a mounted instance, prefixed.
Prefixed(base, items) == {<<x[1], base \o x[2]>> : x \in items}

\* Directory::Walk(): the local items and, when recursing, those of the
\* mount points met on the way.
Walk(tree, d, sel) ==
    LocalWalk(tree, d, sel)
    \cup UNION {Prefixed(m[1], LocalWalk(root[m[2]], << >>, sel)) :
                   m \in {n \in tree.mounted :
                             sel.recursive /\ IsPrefix(d, n[1]) /\ ~Hidden(tree, n[1])}}

VisitEntry(t) ==
    /\ At(t, "Visit")
    /\ th' = [th EXCEPT ![t] = [@ EXCEPT !.pc = "v_lock"]]
    /\ UNCHANGED <<db_mutex, badUnlock, aborted, instVars, cache_path, budget, storage_uri, name>>

\* The lookup landed on a mount point: protect.unlock(), then WalkMount().
VisitIntoMount(t, r) ==
    /\ DbUnlock(t)
    /\ th' = [th EXCEPT ![t] = [@ EXCEPT !.r = r, !.acc = Access(t, "Visit:276"),
                                         !.protect = FALSE, !.pc = "v_call"]]

\* Visit that reports the directory itself whenever a directory visitor is there.
VisitsSelf_Always(sel) == sel.visit_directory

\* if (selection.recursive && visit_directory) visit_directory(r.directory->Export())
VisitsSelf(sel) == sel.recursive /\ sel.visit_directory

VisitLookup(t) ==
    /\ At(t, "v_lookup")
    /\ LET i == th[t].self
           sel == th[t].sel
           r == LookupDirectory(root[i], th[t].uri)
           s == IF r.uri = NullUri THEN {} ELSE FindSong(root[i], r.directory, r.uri[1])
       IN IF IsMount(root[i], r.directory)
          THEN VisitIntoMount(t, r)
          ELSE /\ LeaveScope(t, th[t].protect)
               /\ IF r.uri = NullUri
                  THEN th' = [th EXCEPT ![t] =
                          Ret([@ EXCEPT !.acc = Access(t, "Visit:295"),
                                        !.visited =
                                           (IF VisitsSelf(sel)
                                            THEN {<<"directory", r.directory>>}
                                            ELSE {})
                                           \cup Walk(root[i], r.directory, sel)],
                              Returned(NullSong))]
                  ELSE IF ~HasSlash(r.uri) /\ sel.visit_song /\ s # {}
                  THEN th' = [th EXCEPT ![t] =
                          Ret([@ EXCEPT !.acc = Access(t, "Visit:303"),
                                        !.visited = IF sel.match
                                                    THEN {<<"song", x>> : x \in s}
                                                    ELSE {}],
                              Returned(NullSong))]
                  ELSE th' = [th EXCEPT ![t] =
                          Ret([@ EXCEPT !.acc = Access(t, "Visit:276")],
                              Thrown("NOT_FOUND"))]
    /\ UNCHANGED <<aborted, instVars, cache_path, budget, storage_uri, name>>

\* WalkMount(r.directory->GetPath(), *(r.directory->mounted_database), ...)
VisitCall(t) ==
    /\ At(t, "v_call")
    /\ LET i == th[t].self
           d == th[t].r.directory
       IN IF ~IsMount(root[i], d)
          THEN Abort("Visit:282 reads a deleted Directory")
          ELSE /\ th' = [th EXCEPT ![t] =
                            Call([@ EXCEPT !.acc = Access(t, "Visit:282"),
                                           !.xcall = Access(t, "Visit:282"),
                                           !.db = DbAt(root[i], d)],
                                 "v_ret", DbAt(root[i], d), "Visit", th[t].r.uri)]
               /\ UNCHANGED <<db_mutex, badUnlock, aborted, instVars, cache_path, budget, storage_uri, name>>

\* The mounted instance's Visit() returned or threw.
VisitRet(t) ==
    /\ At(t, "v_ret")
    /\ LeaveScope(t, th[t].protect)
    /\ th' = [th EXCEPT ![t] =
                 IF th[t].ret.kind = "throw"
                 THEN Ret(@, th[t].ret)
                 ELSE Ret([@ EXCEPT !.visited = Prefixed(th[t].r.directory, @)],
                          Returned(NullSong))]
    /\ UNCHANGED <<aborted, instVars, cache_path, budget, storage_uri, name>>

(***************************************************************************)
(* SimpleDatabase::Save                                                    *)
(***************************************************************************)

SaveEntry(t) ==
    /\ At(t, "Save")
    /\ th' = [th EXCEPT ![t] = [@ EXCEPT !.pc = "sv_lock"]]
    /\ UNCHANGED <<db_mutex, badUnlock, aborted, instVars, cache_path, budget, storage_uri, name>>

\* Save whose ScopeDatabaseLock lives until Save returns.
SavePrune_KeepsLock(t) ==
    /\ At(t, "sv_prune")
    /\ root' = [root EXCEPT ![th[t].self] = PruneEmpty(@)]
    /\ th' = [th EXCEPT ![t] = [@ EXCEPT !.acc = Access(t, "Save:339"),
                                         !.pc = "sv_create"]]
    /\ UNCHANGED <<db_mutex, badUnlock, aborted, status, borrowed_song_count,
                   light_song, prefixed_light_song, heap, nOpen, nClose,
                   nDelete, file, mtime, cache_path, budget, storage_uri, name>>

\* root->PruneEmpty(); root->Sort(); then the ScopeDatabaseLock block ends.
SavePrune(t) ==
    /\ At(t, "sv_prune")
    /\ LeaveScope(t, th[t].protect)
    /\ root' = [root EXCEPT ![th[t].self] = PruneEmpty(@)]
    /\ th' = [th EXCEPT ![t] = [@ EXCEPT !.acc = Access(t, "Save:339"),
                                         !.protect = FALSE, !.pc = "sv_create"]]
    /\ UNCHANGED <<aborted, status, borrowed_song_count, light_song,
                   prefixed_light_song, heap, nOpen, nClose, nDelete, file,
                   mtime, cache_path, budget, storage_uri, name>>

\* FileOutputStream fos(path), the GzipOutputStream and the BufferedOutputStream.
SaveCreate(t) ==
    /\ At(t, "sv_create")
    /\ \E ok \in BOOLEAN :
         th' = [th EXCEPT ![t] = IF ok THEN [@ EXCEPT !.pc = "sv_write"]
                                 ELSE Ret(@, Thrown("IO"))]
    /\ UNCHANGED <<db_mutex, badUnlock, aborted, instVars, cache_path, budget, storage_uri, name>>

\* db_save_internal(bos, *root); bos.Flush(); gzip->Flush()
SaveWrite(t) ==
    /\ At(t, "sv_write")
    /\ \E ok \in BOOLEAN :
         th' = [th EXCEPT ![t] =
                   IF ok THEN [@ EXCEPT !.acc = Access(t, "Save:361"),
                                        !.buf = root[th[t].self], !.pc = "sv_commit"]
                   ELSE Ret([@ EXCEPT !.acc = Access(t, "Save:361")], Thrown("IO"))]
    /\ UNCHANGED <<db_mutex, badUnlock, aborted, instVars, cache_path, budget, storage_uri, name>>

\* Save that refreshes mtime whether or not the commit succeeded.
SaveTime_BeforeCommit(i, ok, stat) == IF stat THEN file[i].time + 1 ELSE mtime[i]

\* mtime after fos.Commit(): refreshed when Commit() returned and GetFileInfo()
\* could read the file's status.
SaveTime(i, ok, stat) == IF ok /\ stat THEN file[i].time + 1 ELSE mtime[i]

\* fos.Commit(); if (GetFileInfo(path, fi)) mtime = fi.GetModificationTime()
SaveCommit(t) ==
    /\ At(t, "sv_commit")
    /\ LET i == th[t].self IN
       \E ok \in BOOLEAN, stat \in BOOLEAN :
         IF ok
         THEN /\ file' = [file EXCEPT ![i] = [tree |-> th[t].buf, time |-> @.time + 1]]
              /\ mtime' = [mtime EXCEPT ![i] = SaveTime(i, ok, stat)]
              /\ th' = [th EXCEPT ![t] = Ret(@, Returned(NullSong))]
         ELSE /\ th' = [th EXCEPT ![t] = Ret(@, Thrown("IO"))]
              /\ mtime' = [mtime EXCEPT ![i] = SaveTime(i, ok, stat)]
              /\ UNCHANGED file
    /\ UNCHANGED <<db_mutex, badUnlock, aborted, status, root, borrowed_song_count,
                   light_song, prefixed_light_song, heap, nOpen, nClose, nDelete,
                   cache_path, budget, storage_uri, name>>

(***************************************************************************)
(* Open() and Close() of the host instance                                 *)
(***************************************************************************)

HostOpen(t) ==
    /\ At(t, "Open")
    /\ LET i == th[t].self IN
       IF prefixed_light_song[i] # NullSong
       THEN Abort("Open: prefixed_light_song == nullptr")
       ELSE \E o \in OpenOutcomes :
              /\ nOpen' = [nOpen EXCEPT ![i] = @ + 1]
              /\ root' = [root EXCEPT ![i] = OpenRoot(i, o)]
              /\ mtime' = [mtime EXCEPT ![i] = OpenTime(i, o)]
              /\ borrowed_song_count' = [borrowed_song_count EXCEPT ![i] = 0]
              /\ status' = [status EXCEPT ![i] = IF o = "fail" THEN "closed" ELSE "open"]
              /\ th' = [th EXCEPT ![t] =
                           Ret(@, IF o = "fail" THEN Thrown("IO") ELSE Returned(NullSong))]
              /\ UNCHANGED <<db_mutex, badUnlock, aborted, light_song,
                             prefixed_light_song, heap, nClose, nDelete, file,
                             cache_path, budget, storage_uri, name>>

HostClose(t) ==
    /\ At(t, "Close")
    /\ LET i == th[t].self
           gone == Owned(root[i])
       IN IF CloseFails(i) # ""
          THEN Abort(CloseFails(i))
          ELSE /\ nClose' = [nClose EXCEPT ![i] = @ + 1]
               /\ status' = [x \in Insts |->
                               IF x = i THEN "closed"
                               ELSE IF x \in gone THEN "deleted" ELSE status[x]]
               /\ root' = [x \in Insts |->
                             IF x = i \/ x \in gone THEN NoRoot ELSE root[x]]
               /\ nDelete' = [x \in Insts |->
                                IF x \in gone THEN nDelete[x] + 1 ELSE nDelete[x]]
               /\ th' = [th EXCEPT ![t] = Ret(@, Returned(NullSong))]
               /\ UNCHANGED <<db_mutex, badUnlock, aborted, borrowed_song_count,
                              light_song, prefixed_light_song, heap, nOpen, file,
                              mtime, cache_path, budget, storage_uri, name>>

(***************************************************************************)
(* The callers                                                             *)
(***************************************************************************)

\* The selections and visitors the callers pass to Visit().
Selections ==
    {[recursive |-> TRUE, visit_directory |-> TRUE, visit_song |-> TRUE, match |-> TRUE],
     [recursive |-> FALSE, visit_directory |-> TRUE, visit_song |-> FALSE, match |-> TRUE]}

\* The LightSong pointers a caller may hand to ReturnSong().
SongPointers == {NullSong, SlotOf(Host), HeapSong(1), HeapSong(2)}

CanCall(t) ==
    /\ At(t, "idle")
    /\ budget > 0
    /\ status[Host] = "open"

CallGetSong(t, U) ==
    /\ CanCall(t)
    /\ \E u \in U : th' = [th EXCEPT ![t] = Start(@, "GetSong", u, NullSong)]
    /\ budget' = budget - 1
    /\ UNCHANGED <<db_mutex, badUnlock, aborted, instVars, cache_path, storage_uri, name>>

CallReturnSong(t) ==
    /\ CanCall(t)
    /\ \E p \in SongPointers : th' = [th EXCEPT ![t] = Start(@, "ReturnSong", NullUri, p)]
    /\ budget' = budget - 1
    /\ UNCHANGED <<db_mutex, badUnlock, aborted, instVars, cache_path, storage_uri, name>>

CallVisit(t, U) ==
    /\ CanCall(t)
    /\ \E u \in U \cup {NullUri}, sel \in Selections :
         th' = [th EXCEPT ![t] = [Start(@, "Visit", u, NullSong) EXCEPT !.sel = sel]]
    /\ budget' = budget - 1
    /\ UNCHANGED <<db_mutex, badUnlock, aborted, instVars, cache_path, storage_uri, name>>

CallSave(t) ==
    /\ CanCall(t)
    /\ th' = [th EXCEPT ![t] = Start(@, "Save", NullUri, NullSong)]
    /\ budget' = budget - 1
    /\ UNCHANGED <<db_mutex, badUnlock, aborted, instVars, cache_path, storage_uri, name>>

\* The caller hands an instance it has constructed and opened to Mount().
CallMount(t, U) ==
    /\ CanCall(t)
    /\ \E d \in DbIds : status[d] = "unborn"
    /\ \E u \in U :
         th' = [th EXCEPT ![t] = [Start(@, "Mount", u, NullSong) EXCEPT !.db = FreshDb]]
    /\ status' = [status EXCEPT ![FreshDb] = "open"]
    /\ root' = [root EXCEPT ![FreshDb] = file[FreshDb].tree]
    /\ mtime' = [mtime EXCEPT ![FreshDb] = file[FreshDb].time]
    /\ nOpen' = [nOpen EXCEPT ![FreshDb] = @ + 1]
    /\ budget' = budget - 1
    /\ UNCHANGED <<db_mutex, badUnlock, aborted, borrowed_song_count, light_song,
                   prefixed_light_song, heap, nClose, nDelete, file, cache_path, storage_uri, name>>

CallMountCache(t, U) ==
    /\ CanCall(t)
    /\ \E d \in DbIds : status[d] = "unborn"
    /\ \E u \in U :
         th' = [th EXCEPT ![t] = [Start(@, "MountCache", u, NullSong) EXCEPT !.db = FreshDb]]
    /\ status' = [status EXCEPT ![FreshDb] = "reserved"]
    /\ budget' = budget - 1
    /\ UNCHANGED <<db_mutex, badUnlock, aborted, root, borrowed_song_count, light_song,
                   prefixed_light_song, heap, nOpen, nClose, nDelete, file, mtime,
                   cache_path, storage_uri, name>>

CallUnmount(t, U) ==
    /\ CanCall(t)
    /\ \E u \in U : th' = [th EXCEPT ![t] = Start(@, "Unmount", u, NullSong)]
    /\ budget' = budget - 1
    /\ UNCHANGED <<db_mutex, badUnlock, aborted, instVars, cache_path, storage_uri, name>>

\* Close() and Open() of the host are called while no other caller is active.
CallClose(t) ==
    /\ CanCall(t)
    /\ \A u \in Threads \ {t} : th[u].pc = "idle"
    /\ th' = [th EXCEPT ![t] = Start(@, "Close", NullUri, NullSong)]
    /\ budget' = budget - 1
    /\ UNCHANGED <<db_mutex, badUnlock, aborted, instVars, cache_path, storage_uri, name>>

CallOpen(t) ==
    /\ At(t, "idle")
    /\ budget > 0
    /\ status[Host] = "closed"
    /\ \A u \in Threads \ {t} : th[u].pc = "idle"
    /\ th' = [th EXCEPT ![t] = Start(@, "Open", NullUri, NullSong)]
    /\ budget' = budget - 1
    /\ UNCHANGED <<db_mutex, badUnlock, aborted, instVars, cache_path, storage_uri, name>>

Step(t, U) ==
    \/ CallGetSong(t, U) \/ CallReturnSong(t) \/ CallVisit(t, U) \/ CallSave(t)
    \/ CallMount(t, U) \/ CallMountCache(t, U) \/ CallUnmount(t, U)
    \/ CallClose(t) \/ CallOpen(t)
    \/ Lock(t)
    \/ GetSongEntry(t) \/ GetSongLookup(t) \/ GetSongCall(t)
    \/ GetSongWrap(t) \/ GetSongExport(t)
    \/ ReturnSong(t)
    \/ VisitEntry(t) \/ VisitLookup(t) \/ VisitCall(t) \/ VisitRet(t)
    \/ SaveEntry(t) \/ SavePrune(t) \/ SaveCreate(t) \/ SaveWrite(t) \/ SaveCommit(t)
    \/ MountEntry(t) \/ MountBody(t)
    \/ MountCacheEntry(t) \/ MountCacheOpen(t) \/ MountCacheAfter(t)
    \/ UnmountEntry(t) \/ LockUmountSteal(t) \/ UnmountClose(t)
    \/ HostOpen(t) \/ HostClose(t)

\* One caller: the methods run one after another.
Init == InitCommon /\ budget = MaxOps
Next == Step("t1", Uris)
Spec == Init /\ [][Next]_vars

\* Two callers on two threads.
ConcInit == InitCommon /\ budget = MaxConcOps
ConcNext == \E t \in Threads : Step(t, ConcUris)
ConcSpec == ConcInit /\ [][ConcNext]_vars

\* One caller that only visits, with every selection and visitor set, on a
\* host that has one instance mounted.
MaxVisits == 1

\* Directory "a" with song "a/s" and a mount at "a/m".
ExampleTree ==
    [HostTree EXCEPT !.dirs = @ \cup {<<"a", "m">>}, !.mounted = {<<(<<"a", "m">>), 1>>}]

VisitUris ==
    Uris \cup {NullUri, <<"a", "m", "s">>, <<"a", "m", "a">>, <<"a", "x", "y">>}

AllSelections ==
    [recursive : BOOLEAN, visit_directory : BOOLEAN, visit_song : BOOLEAN,
     match : BOOLEAN]

VisitInit ==
    /\ db_mutex = NoThread
    /\ badUnlock = FALSE
    /\ aborted = ""
    /\ status = [i \in Insts |-> IF i \in {Host, 1} THEN "open" ELSE "unborn"]
    /\ \E host \in {MountedTree, ExampleTree}, mnt \in {LoadedTree, HostTree} :
          root = [i \in Insts |-> IF i = Host THEN host
                                  ELSE IF i = 1 THEN mnt ELSE NoRoot]
    /\ nOpen = [i \in Insts |-> IF i \in {Host, 1} THEN 1 ELSE 0]
    /\ mtime = [i \in Insts |-> IF i \in {Host, 1} THEN 0 ELSE MinTime]
    /\ borrowed_song_count = [i \in Insts |-> 0]
    /\ light_song = [i \in Insts |-> {}]
    /\ prefixed_light_song = [i \in Insts |-> NullSong]
    /\ heap = << >>
    /\ nClose = [i \in Insts |-> 0]
    /\ nDelete = [i \in Insts |-> 0]
    /\ cache_path = FALSE
    /\ file = [i \in Insts |->
                 [tree |-> IF i = Host THEN HostTree ELSE LoadedTree, time |-> 0]]
    /\ th = [t \in Threads |-> IdleThread]
    /\ budget = MaxVisits
    /\ storage_uri = << >>
    /\ name = << >>

CallVisitAny(t) ==
    /\ CanCall(t)
    /\ \E u \in VisitUris, sel \in AllSelections :
         th' = [th EXCEPT ![t] = [Start(@, "Visit", u, NullSong) EXCEPT !.sel = sel]]
    /\ budget' = budget - 1
    /\ UNCHANGED <<db_mutex, badUnlock, aborted, instVars, cache_path, storage_uri, name>>

VisitNext ==
    \/ CallVisitAny("t1") \/ Lock("t1")
    \/ VisitEntry("t1") \/ VisitLookup("t1") \/ VisitCall("t1") \/ VisitRet("t1")

VisitSpec == VisitInit /\ [][VisitNext]_vars


(***************************************************************************)
(* The cache file name of Mount(local_uri, storage_uri)                    *)
(***************************************************************************)

\* Characters are char values; a byte above 127 is a negative char.
IsAlphaNumericASCII(ch) ==
    \/ ch \in 48..57
    \/ ch \in 65..90
    \/ ch \in 97..122

IsSafeChar_NoPercent(ch) ==
    IsAlphaNumericASCII(ch) \/ ch = 45 \/ ch = 95

\* '-' is 45, '_' is 95, '%' is 37.
IsSafeChar(ch) ==
    IsAlphaNumericASCII(ch) \/ ch = 45 \/ ch = 95 \/ ch = 37

IsUnsafeChar(ch) == ~IsSafeChar(ch)

\* std::string name(storage_uri);
\* std::replace_if(name.begin(), name.end(), IsUnsafeChar, '_');
DeriveName(uri) ==
    [k \in 1..Len(uri) |-> IF IsUnsafeChar(uri[k]) THEN 95 ELSE uri[k]]

\* Strings of at most n characters of the set chars.
Strings(chars, n) == UNION {[1..k -> chars] : k \in 0..n}

MaxNameLen == 3

\* '%' '-' '/' '0' ':' 'Z' '_' 'a' '{' and the byte 0xC3.
NameChars == {37, 45, 47, 48, 58, 90, 95, 97, 123, -61}

\* "http://x/y:z"
ExampleUri == <<104, 116, 116, 112, 58, 47, 47, 120, 47, 121, 58, 122>>

\* One storage identifier is given; its name is derived, and the name is
\* then given as a storage identifier itself.
SanInit ==
    /\ InitObjects
    /\ root[1] = NoRoot
    /\ cache_path
    /\ budget = 0
    /\ \E uri \in Strings(NameChars, MaxNameLen) \cup {ExampleUri} :
          storage_uri = <<uri>>
    /\ name = << >>

SanDerive ==
    /\ Len(name) < Len(storage_uri)
    /\ name' = Append(name, DeriveName(storage_uri[Len(name) + 1]))
    /\ UNCHANGED <<db_mutex, badUnlock, aborted, instVars, cache_path, th,
                   budget, storage_uri>>

SanRederive ==
    /\ Len(name) = 1
    /\ Len(storage_uri) = 1
    /\ storage_uri' = Append(storage_uri, name[1])
    /\ UNCHANGED <<db_mutex, badUnlock, aborted, instVars, cache_path, th,
                   budget, name>>

SanNext == SanDerive \/ SanRederive
SanSpec == SanInit /\ [][SanNext]_vars

MaxPairLen == 2

\* 'a' '_' '/'
PairChars == {97, 95, 47}

\* Two storage identifiers are given, and a name is derived for each.
CollideInit ==
    /\ InitObjects
    /\ root[1] = NoRoot
    /\ cache_path
    /\ budget = 0
    /\ \E s \in Strings(PairChars, MaxPairLen), t \in Strings(PairChars, MaxPairLen) :
          storage_uri = <<s, t>>
    /\ name = << >>

CollideNext == SanDerive
CollideSpec == CollideInit /\ [][CollideNext]_vars

(***************************************************************************)
(* Properties                                                              *)
(***************************************************************************)

\* C1: no thread holds the database mutex while it calls into another
\* instance (the mounted instance's GetSong and Visit, Open and Close of an
\* instance being mounted or unmounted), so that instance's own acquisition
\* of the mutex is never made by the thread that holds it.
C1_NoLockAcrossInstances ==
    \A t \in Threads :
        /\ th[t].xcall.site # "none" => ~th[t].xcall.held
        /\ th[t].pc \in DOMAIN AfterLock => db_mutex # t

\* The mounted instance's GetSong holds the mutex it acquired itself.
C1_Witness ==
    \E t \in Threads :
        /\ th[t].self # Host /\ th[t].op = "GetSong" /\ th[t].pc = "gs_lookup"
        /\ th[t].xcall.site = "GetSong:215" /\ db_mutex = t

\* C2: every read and write of a Directory tree is made by a thread that
\* holds the database mutex.
C2_TreeAccessUnderLock == \A t \in Threads : th[t].acc.held

\* C3: the mutex is released only by the thread that holds it, and a thread
\* that has left a method, by return or by exception, does not hold it.
C3_LockReleasedOnce ==
    /\ ~badUnlock
    /\ \A t \in Threads : th[t].pc = "idle" => db_mutex # t

\* GetSong has left with the exception the mounted instance threw.
C3_Witness ==
    \E t \in Threads :
        /\ th[t].pc = "idle" /\ th[t].op = "GetSong"
        /\ th[t].result = Thrown("NOT_FOUND")
        /\ th[t].xcall.site = "GetSong:215"
        /\ db_mutex = NoThread

\* The results an instance has lent out and not got back.
Outstanding(i) ==
    borrowed_song_count[i] + (IF prefixed_light_song[i] # NullSong THEN 1 ELSE 0)

\* C4, one step of a thread: GetSong and Close with a result outstanding and
\* ReturnSong without one fail an assertion; a ReturnSong that passes frees
\* the prefixed wrapper if one is outstanding and else decrements the counter
\* and empties the slot.
BorrowStep(t) ==
    LET i == th[t].self IN
    /\ th[t].pc = "GetSong" /\ status[i] = "open" /\ Outstanding(i) # 0
           => aborted' # ""
    /\ th[t].pc = "Close" /\ Outstanding(i) # 0 => aborted' # ""
    /\ th[t].pc = "ReturnSong" /\ Outstanding(i) = 0 => aborted' # ""
    /\ th[t].pc = "ReturnSong" /\ th'[t].pc = "idle" =>
           IF prefixed_light_song[i] # NullSong
           THEN /\ prefixed_light_song'[i] = NullSong
                /\ DOMAIN heap' = DOMAIN heap \ {prefixed_light_song[i][2]}
                /\ UNCHANGED <<borrowed_song_count, light_song>>
           ELSE /\ borrowed_song_count'[i] = borrowed_song_count[i] - 1
                /\ light_song'[i] = {}
                /\ UNCHANGED <<prefixed_light_song, heap>>

\* C4: over any sequence of calls an instance has at most one borrowed result
\* outstanding, misuse of the borrow protocol fails an assertion, and
\* ReturnSong releases exactly what GetSong lent.
C4_BorrowProtocol ==
    /\ [](\A i \in Insts : Outstanding(i) \in {0, 1})
    /\ [][\A t \in Threads : BorrowStep(t)]_vars

\* A GetSong issued while the slot is lent out has failed its assertion.
C4_Witness ==
    /\ aborted = "GetSong: borrowed_song_count == 0"
    /\ borrowed_song_count[Host] = 1

\* The prefixed wrappers on the heap that instance i created.
Wrappers(i) == {id \in DOMAIN heap : heap[id].inst = i}

\* C5 as stated: a GetSong that resolves into a mount while a prefixed
\* result is outstanding does not fail.
C5_SecondPrefixedResult ==
    \A t \in Threads :
        ~(/\ aborted = "GetSong: prefixed_light_song == nullptr"
          /\ th[t].pc = "GetSong" /\ th[t].self = Host
          /\ IsMount(root[Host], LookupDirectory(root[Host], th[t].uri).directory))

\* C5, amended: an instance has at most one prefixed result outstanding, the
\* one prefixed_light_song points to, and no GetSong gets past its entry
\* while it is outstanding.
C5_OnePrefixedResult ==
    /\ \A i \in Insts :
           Wrappers(i) = IF prefixed_light_song[i] = NullSong THEN {}
                         ELSE {prefixed_light_song[i][2]}
    /\ \A t \in Threads :
           th[t].op = "GetSong" /\ th[t].pc \notin {"GetSong", "idle"}
               => /\ prefixed_light_song[Host] = NullSong
                  /\ prefixed_light_song[th[t].self] = NullSong

\* A GetSong issued while a prefixed result is outstanding has failed.
C5_Witness ==
    /\ aborted = "GetSong: prefixed_light_song == nullptr"
    /\ Wrappers(Host) # {}
    /\ \E t \in Threads : th[t].pc = "GetSong" /\ th[t].self = Host

\* C6: a node with a mounted instance has nothing below it, and no instance
\* is mounted at two nodes.
C6_MountPointsAreLeaves ==
    \A i \in Insts : \A m \in root[i].mounted :
        /\ ~\E x \in root[i].dirs \cup root[i].songs : x # m[1] /\ IsPrefix(m[1], x)
        /\ \A n \in root[i].mounted : n[2] = m[2] => n = m

\* C7, the step of Mount(uri, db) that holds the mutex: a uri that resolves
\* to an existing node is a CONFLICT, a remainder with a slash is NOT_FOUND,
\* both without any change; else one child is created under the resolved
\* parent with db mounted on it and nothing else changes.
MountStep(t) ==
    th[t].pc = "mt_body" /\ th'[t] # th[t] =>
        LET i == th[t].self
            d == th[t].db
            r == LookupDirectory(root[i], th[t].uri)
            v == IF th[t].stack = << >> THEN th'[t].result ELSE th'[t].ret
            child == Append(r.directory, r.uri[1])
        IN IF r.uri = NullUri
           THEN v = Thrown("CONFLICT") /\ root' = root /\ d \notin Owned(root'[i])
           ELSE IF HasSlash(r.uri)
           THEN v = Thrown("NOT_FOUND") /\ root' = root /\ d \notin Owned(root'[i])
           ELSE /\ v = Returned(NullSong)
                /\ <<child, d>> \notin root[i].mounted
                /\ root'[i] = [dirs |-> root[i].dirs \cup {child},
                               songs |-> root[i].songs,
                               mounted |-> root[i].mounted \cup {<<child, d>>}]
                /\ \A j \in Insts \ {i} : root'[j] = root[j]

\* C7: every Mount(uri, db) ends in one of the three ways above.
C7_MountOutcomes == [][\A t \in Threads : MountStep(t)]_vars

\* Mount has thrown NOT_FOUND.
C7_Witness ==
    \E t \in Threads :
        /\ th[t].pc = "idle" /\ th[t].op = "Mount"
        /\ th[t].result = Thrown("NOT_FOUND")
        /\ th[t].acc.site = "Mount:391"

\* C8, one step of Mount(local_uri, storage_uri): without a cache directory
\* it throws NOT_FOUND and constructs no instance; when Open throws, the
\* instance is deleted without Close; when Mount(local_uri, db) throws, it is
\* closed and then deleted; in each case the host's tree is what it was
\* before the call and the instance is mounted nowhere.
CacheMountStep(t) ==
    LET d == th[t].db IN
    /\ th[t].pc = "MountCache" /\ ~cache_path =>
           /\ th'[t].pc = "idle" /\ th'[t].result = Thrown("NOT_FOUND")
           /\ \A e \in DbIds : status'[e] \notin {"reserved", "constructed"}
           /\ UNCHANGED <<root, nOpen, nClose, nDelete>>
    /\ th[t].pc = "mc_open" /\ status'[d] # "open" =>
           /\ th'[t].pc = "idle" /\ th'[t].result.kind = "throw"
           /\ status'[d] = "deleted" /\ nDelete'[d] = 1 /\ nClose'[d] = 0
           /\ root'[Host] = th[t].before /\ d \notin Owned(root'[Host])
    /\ th[t].pc = "mc_after" /\ th[t].ret.kind = "throw" =>
           /\ th'[t].pc = "idle" /\ th'[t].result = th[t].ret
           /\ status'[d] = "deleted" /\ nDelete'[d] = 1 /\ nClose'[d] = 1
           /\ root'[Host] = th[t].before /\ d \notin Owned(root'[Host])

\* C8: a failed Mount(local_uri, storage_uri) leaves the tree unchanged and
\* no live instance behind.
C8_CacheMountRollback == [][\A t \in Threads : CacheMountStep(t)]_vars

\* Mount(local_uri, storage_uri) has thrown the CONFLICT of Mount(local_uri,
\* db), and the instance it had opened is closed and deleted.
C8_Witness ==
    \E t \in Threads :
        /\ th[t].pc = "idle" /\ th[t].op = "MountCache"
        /\ th[t].result = Thrown("CONFLICT")
        /\ \E d \in DbIds : status[d] = "deleted" /\ nOpen[d] = 1 /\ nClose[d] = 1

\* C9: an Unmount(uri) that follows a successful mount at uri returns true,
\* leaves the tree as it was before the mount, and closes and deletes the
\* instance once.
C9_MountThenUnmount ==
    \A t \in Threads :
        th[t].pc = "idle" /\ th[t].op = "Unmount" /\ th[t].pair # NoCall =>
            /\ th[t].result = ReturnedBool(TRUE)
            /\ root[Host] = th[t].pair.before
            /\ status[th[t].pair.db] = "deleted"
            /\ nClose[th[t].pair.db] = 1 /\ nDelete[th[t].pair.db] = 1

\* C10, the steps of Unmount(uri) for a uri that does not resolve exactly to
\* a mount point: nothing is stolen and false is returned, with no instance
\* closed or deleted and no change to any tree.
UnmountMissStep(t) ==
    LET i == th[t].self
        r == LookupDirectory(root[i], th[t].uri)
    IN /\ th[t].pc = "um_steal" /\ (r.uri # NullUri \/ ~IsMount(root[i], r.directory)) =>
              /\ th'[t].pc = "um_close" /\ th'[t].db = NullDb
              /\ UNCHANGED <<root, status, nClose, nDelete, aborted>>
       /\ th[t].pc = "um_close" /\ th[t].db = NullDb =>
              /\ th'[t].pc = "idle" /\ th'[t].result = ReturnedBool(FALSE)
              /\ UNCHANGED <<root, status, nClose, nDelete, aborted>>

\* C10: Unmount of anything but a mount point returns false and does nothing.
C10_UnmountMiss == [][\A t \in Threads : UnmountMissStep(t)]_vars

\* Unmount("m/s"), a path below the mount point "m", has stolen nothing.
C10_Witness ==
    \E t \in Threads :
        /\ th[t].pc = "um_close" /\ th[t].db = NullDb
        /\ th[t].uri = <<"m", "s">> /\ IsMount(root[Host], <<"m">>)

\* What a method hands to its caller in the step that ends it.
Outcome(t) == IF th[t].stack = << >> THEN th'[t].result ELSE th'[t].ret

\* C11, the steps of a GetSong that did not land on a mount point: NOT_FOUND
\* with the borrow state untouched when nothing remains, when the remainder
\* has a slash, or when the directory has no such song; else the slot holds
\* the song, the counter is 1 and the slot's address is returned.
GetSongLocalStep(t) ==
    LET i == th[t].self
        r == LookupDirectory(root[i], th[t].uri)
        found == {y \in root[i].songs : y = r.directory \o r.uri}
    IN /\ th[t].pc = "gs_lookup" /\ ~IsMount(root[i], r.directory) =>
              /\ UNCHANGED <<borrowed_song_count, light_song, prefixed_light_song, heap>>
              /\ IF r.uri = NullUri \/ HasSlash(r.uri)
                 THEN th'[t].pc # "gs_export" /\ Outcome(t) = Thrown("NOT_FOUND")
                 ELSE th'[t].pc = "gs_export"
       /\ th[t].pc = "gs_export" =>
              IF found = {}
              THEN /\ Outcome(t) = Thrown("NOT_FOUND")
                   /\ UNCHANGED <<borrowed_song_count, light_song,
                                  prefixed_light_song, heap>>
              ELSE /\ Outcome(t) = Returned(SlotOf(i))
                   /\ light_song'[i] = found
                   /\ borrowed_song_count'[i] = 1
                   /\ UNCHANGED <<prefixed_light_song, heap>>

\* C11: the outcomes of a GetSong that stays in the instance's own tree.
C11_GetSongLocal == [][\A t \in Threads : GetSongLocalStep(t)]_vars

\* GetSong("a/s") has returned the slot with the song in it.
C11_Witness ==
    \E t \in Threads :
        /\ th[t].pc = "idle" /\ th[t].op = "GetSong"
        /\ th[t].result = Returned(SlotOf(Host))
        /\ light_song[Host] = {<<"a", "s">>} /\ borrowed_song_count[Host] = 1

\* C12, the step of Visit for a remainder that names no directory and is not
\* beyond a mount point: NOT_FOUND when the remainder has a slash or the
\* directory has no such song; else Visit returns, and the song reaches the
\* song visitor once if one was supplied and the filter accepts it.
VisitSongStep(t) ==
    LET i == th[t].self
        sel == th[t].sel
        r == LookupDirectory(root[i], th[t].uri)
        found == {y \in root[i].songs : y = r.directory \o r.uri}
    IN th[t].pc = "v_lookup" /\ ~IsMount(root[i], r.directory) /\ r.uri # NullUri =>
           IF HasSlash(r.uri) \/ found = {}
           THEN Outcome(t) = Thrown("NOT_FOUND")
           ELSE /\ Outcome(t) = Returned(NullSong)
                /\ th'[t].visited = IF sel.visit_song /\ sel.match
                                    THEN {<<"song", y>> : y \in found} ELSE {}

\* C12: Visit of a song fails only when the song does not exist.
C12_VisitSong == [][\A t \in Threads : VisitSongStep(t)]_vars

\* C13, the steps of Visit: on a mount point the suffix, the recursion flag,
\* the filter and the visitors go to the mounted instance, and what that
\* reports comes back under the mount point's path; a directory is reported
\* itself only to a directory visitor of a recursive Visit; the recursive
\* Visit of the root of the example tree reports "a", "a/s" and every item of
\* the mount below "a/m".
VisitPlaceStep(t) ==
    LET i == th[t].self
        sel == th[t].sel
        r == LookupDirectory(root[i], th[t].uri)
    IN /\ th[t].pc = "v_call" /\ th'[t] # th[t] =>
              /\ IsMount(root[i], r.directory)
              /\ th'[t].pc = "Visit" /\ th'[t].self = DbAt(root[i], r.directory)
              /\ th'[t].uri = r.uri /\ th'[t].sel = sel
       /\ th[t].pc = "v_ret" /\ th[t].ret.kind = "return" =>
              /\ IsMount(root[i], r.directory)
              /\ Outcome(t) = Returned(NullSong)
              /\ th'[t].visited = {<<x[1], r.directory \o x[2]>> : x \in th[t].visited}
       /\ th[t].pc = "v_lookup" /\ ~IsMount(root[i], r.directory) /\ r.uri = NullUri =>
              /\ Outcome(t) = Returned(NullSong)
              /\ <<"directory", r.directory>> \in th'[t].visited
                     <=> (sel.recursive /\ sel.visit_directory)
       /\ (/\ th[t].pc = "v_lookup" /\ i = Host /\ th[t].uri = NullUri
           /\ root[Host] = ExampleTree
           /\ sel = [recursive |-> TRUE, visit_directory |-> TRUE,
                     visit_song |-> TRUE, match |-> TRUE]) =>
              /\ {<<"directory", <<"a">>>>, <<"song", <<"a", "s">>>>} \subseteq th'[t].visited
              /\ \A y \in root[1].dirs \ {<< >>} :
                     <<"directory", <<"a", "m">> \o y>> \in th'[t].visited
              /\ \A y \in root[1].songs :
                     <<"song", <<"a", "m">> \o y>> \in th'[t].visited

\* C13: Visit reports every item at its place in the host's tree.
C13_VisitPlaces == [][\A t \in Threads : VisitPlaceStep(t)]_vars

\* Visit("a/m/a") of the example tree, delegated to the mount at "a/m", has
\* reported the mount's song "a/s" as "a/m/a/s".
C13_Witness ==
    \E t \in Threads :
        /\ th[t].pc = "idle" /\ th[t].op = "Visit"
        /\ th[t].result = Returned(NullSong)
        /\ th[t].xcall.site = "Visit:282"
        /\ root[Host] = ExampleTree
        /\ <<"song", <<"a", "m", "a", "s">>>> \in th[t].visited

\* The ways Open() of instance i may end in one step, given what a
\* successful Load() may leave in mtime.
OpenEnds(t, i, times) ==
    \/ /\ Outcome(t) = Returned(NullSong) \/ th'[t].pc = "Mount"
       /\ status'[i] = "open"
       /\ root'[i] = file[i].tree /\ mtime'[i] \in times
    \/ /\ Outcome(t) = Returned(NullSong) \/ th'[t].pc = "Mount"
       /\ status'[i] = "open"
       /\ root'[i] = NewRoot /\ mtime'[i] = MinTime
    \/ /\ th'[t].pc = "idle" /\ th'[t].result.kind = "throw"
       /\ status'[i] # "open"

\* The step of Open(), called by the host's owner or by Mount(local_uri,
\* storage_uri) on the instance it constructed.
OpenStep(t, times(_)) ==
    /\ th[t].pc = "Open" /\ aborted' = "" => OpenEnds(t, th[t].self, times(th[t].self))
    /\ th[t].pc = "mc_open" => OpenEnds(t, th[t].db, times(th[t].db))

\* What C14 states about mtime after a Load() that succeeded.
FileTime(i) == {file[i].time}

\* What the code leaves in mtime after a Load() that succeeded.
FileTimeIfRead(i) == {file[i].time, MinTime}

\* C14 as stated: Open ends with the loaded tree and the file's modification
\* time, or with an empty root and the minimum time, or with an error.
C14_OpenOutcomes == [][\A t \in Threads : OpenStep(t, FileTime)]_vars

\* C14, amended: after a successful Load() mtime is the file's modification
\* time if GetFileInfo() could read it and the minimum value if not; and an
\* open instance has a root.
C14_OpenOutcomesStat ==
    /\ [](\A i \in Insts : status[i] = "open" => root[i] # NoRoot)
    /\ [][\A t \in Threads : OpenStep(t, FileTimeIfRead)]_vars

\* The host was closed and opened again, Load() failed and Check() passed.
C14_Witness ==
    \E t \in Threads :
        /\ th[t].pc = "idle" /\ th[t].op = "Open"
        /\ th[t].result = Returned(NullSong)
        /\ status[Host] = "open" /\ nOpen[Host] = 2
        /\ root[Host] = NewRoot /\ mtime[Host] = MinTime

\* C15, the steps of Save: up to the commit neither the file at the path nor
\* mtime changes; the commit either fails and changes neither, or puts the
\* whole tree at the path, and only then may mtime become the new file's time.
SaveFileStep(t) ==
    LET i == th[t].self IN
    /\ th[t].pc \in {"Save", "sv_lock", "sv_prune", "sv_create", "sv_write"} =>
           UNCHANGED <<file, mtime>>
    /\ th[t].pc = "sv_commit" =>
           \/ /\ Outcome(t) = Returned(NullSong)
              /\ file'[i].tree = root[i] /\ file'[i].time # file[i].time
              /\ \A j \in Insts \ {i} : file'[j] = file[j] /\ mtime'[j] = mtime[j]
              /\ mtime'[i] \in {file'[i].time, mtime[i]}
           \/ /\ Outcome(t).kind = "throw"
              /\ UNCHANGED <<file, mtime>>

\* C15: Save replaces the file at the path in one step, at the commit.
C15_SaveAtomic == [][\A t \in Threads : SaveFileStep(t)]_vars

\* Save has failed while serializing and the file is the one Open() loaded.
C15_Witness ==
    \E t \in Threads :
        /\ th[t].pc = "idle" /\ th[t].op = "Save"
        /\ th[t].result = Thrown("IO") /\ th[t].acc.site = "Save:361"
        /\ file[Host] = [tree |-> HostTree, time |-> 0] /\ mtime[Host] = 0

\* The characters the derived name may keep: ASCII letters and digits,
\* '-', '_' and '%'.
Allowed(ch) ==
    \/ ch \in 48..57 \cup 65..90 \cup 97..122
    \/ ch \in {45, 95, 37}

\* "http___x_y_z"
ExampleName == <<104, 116, 116, 112, 95, 95, 95, 120, 95, 121, 95, 122>>

\* C16: the derived name has the length of the identifier, keeps every
\* allowed character in place and has '_' wherever the identifier has any
\* other character, so it holds allowed characters only; equal identifiers
\* give equal names, a derived name given as an identifier gives itself, and
\* "http://x/y:z" gives "http___x_y_z".
C16_NameDerivation ==
    /\ \A k \in 1..Len(name) :
          /\ Len(name[k]) = Len(storage_uri[k])
          /\ \A p \in 1..Len(name[k]) :
                /\ Allowed(name[k][p])
                /\ (Allowed(storage_uri[k][p]) => name[k][p] = storage_uri[k][p])
                /\ (~Allowed(storage_uri[k][p]) => name[k][p] = 95)
          /\ (storage_uri[k] = ExampleUri => name[k] = ExampleName)
    /\ \A j, k \in 1..Len(name) :
          /\ (storage_uri[j] = storage_uri[k] => name[j] = name[k])
          /\ (storage_uri[k] = name[j] => name[k] = storage_uri[k])

\* A name was derived from an identifier with a '%' and a character that is
\* not allowed, and derived again from that name.
C16_Witness ==
    /\ Len(name) = 2
    /\ storage_uri[2] = name[1]
    /\ \E p, q \in 1..Len(storage_uri[1]) :
          /\ storage_uri[1][p] = 37
          /\ ~Allowed(storage_uri[1][q])
          /\ name[1][q] = 95

\* C17: two different identifiers get the same name only if they have the
\* same length and, wherever they differ, both have a character that is not
\* allowed.
C17_CollisionsOnlyOnReplaced ==
    (/\ Len(name) = 2
     /\ storage_uri[1] # storage_uri[2]
     /\ name[1] = name[2])
    => /\ Len(storage_uri[1]) = Len(storage_uri[2])
       /\ \A p \in 1..Len(storage_uri[1]) :
             storage_uri[1][p] # storage_uri[2][p]
             => (~Allowed(storage_uri[1][p]) /\ ~Allowed(storage_uri[2][p]))

\* Save is creating, writing or committing the file (the refresh of mtime is
\* part of the commit step).
WritePhase == {"sv_create", "sv_write", "sv_commit"}

SaveLockStep(t) ==
    /\ (At(t, "sv_prune") => db_mutex = t)
    /\ (At(t, "sv_prune") /\ th'[t].pc = "sv_create")
          => /\ db_mutex' = NoThread
             /\ root' = [root EXCEPT ![th[t].self] = PruneEmpty(@)]
    /\ (th[t].pc \in WritePhase => db_mutex # t)
    /\ (th[t].pc \in WritePhase /\ th'[t].pc = "idle") => db_mutex' # t

\* A GetSong or Visit of thread u is under way and Save of thread t is in
\* its write phase.
QueryDuringWrite(t, u) ==
    /\ aborted = ""
    /\ u # t
    /\ th[t].pc \in WritePhase
    /\ th[u].op \in {"GetSong", "Visit"}
    /\ th[u].pc # "idle"

\* C18: Save prunes and sorts while it holds the mutex, has released it when
\* it creates the file and does not hold it from then until it returns; a
\* GetSong or Visit of another thread can take its next step whenever Save
\* is in that write phase.
C18_SaveWritesUnlocked ==
    /\ [][\A t \in Threads : SaveLockStep(t)]_vars
    /\ [](\A t, u \in Threads :
             QueryDuringWrite(t, u) => ENABLED (Step(u, ConcUris)))

\* While Save of one thread is writing the file, another thread's GetSong
\* or Visit has taken the mutex and is looking up its URI.
C18_Witness ==
    \E t, u \in Threads :
        /\ QueryDuringWrite(t, u)
        /\ th[t].pc \in {"sv_write", "sv_commit"}
        /\ th[u].pc \in {"gs_lookup", "v_lookup"}
        /\ db_mutex = u

\* A query has dereferenced the Directory of a mount point that Unmount had
\* already deleted.
UsesDeletedNode ==
    aborted \in {"GetSong:215 reads a deleted Directory",
                 "GetSong:220 reads a deleted Directory",
                 "Visit:282 reads a deleted Directory"}

\* The query of thread q is running a method of the mounted instance, which
\* Unmount has closed and destroyed.
RunsInDestroyed(q) ==
    /\ th[q].pc # "idle"
    /\ th[q].stack # << >>
    /\ status[th[q].self] \in {"closed", "deleted"}

\* Thread q has called GetSong or Visit and thread u has called Unmount, on
\* the host that was opened once and not closed.
QueryAndUnmount(q, u) ==
    /\ q # u
    /\ th[q].op \in {"GetSong", "Visit"}
    /\ th[u].op = "Unmount"
    /\ nOpen[Host] = 1 /\ nClose[Host] = 0

\* C19: with Unmount(M) on one thread and GetSong or Visit of a path at or
\* below M on another, the query never uses the mount point's node after
\* Unmount deleted it and never runs in the mounted instance once Unmount is
\* closing or has destroyed it.
C19_QueryVersusUnmount ==
    \A q, u \in Threads :
        QueryAndUnmount(q, u) => (~UsesDeletedNode /\ ~RunsInDestroyed(q))

\* The host's ReturnSong of a song it had got through a mount has returned.
ReturnedThroughMount(t) ==
    /\ aborted = ""
    /\ th[t].pc = "idle"
    /\ th[t].op = "ReturnSong"
    /\ th[t].result.kind = "return"
    /\ th[t].arg[1] = "heap"

\* A mounted instance's assertion on its borrow counter has failed, in a
\* GetSong the host delegated to it or in the Close() that Unmount calls,
\* while the host has no result outstanding.
MountAssertFailed(t) ==
    /\ borrowed_song_count[Host] = 0
    /\ prefixed_light_song[Host] = NullSong
    /\ \/ /\ aborted = "GetSong: borrowed_song_count == 0"
          /\ th[t].self # Host
       \/ /\ aborted = "Close: borrowed_song_count == 0"
          /\ th[t].op = "Unmount"

\* C20: once the host's ReturnSong has matched a host GetSong that went into
\* a mounted instance, that instance's borrow counter is 0 and its slot is
\* empty, and neither a further host GetSong through the mount nor an
\* Unmount of it fails the mounted instance's assertion on its counter.
C20_BorrowsBalancedAcrossMount ==
    \A t \in Threads :
        /\ ReturnedThroughMount(t)
              => \A i \in Insts \ {Host} :
                    borrowed_song_count[i] = 0 /\ light_song[i] = {}
        /\ ~MountAssertFailed(t)

====
